---- MODULE Spec2Model ----
(***************************************************************************)
(* Model of the GUI test harness controller VSCodeHelper                    *)
(* (test/e2e-python/helpers/vscode_helper.py) together with the part of    *)
(* its environment that its operations read and change: the processes it   *)
(* spawned, other instances of the application on the host, and the        *)
(* application binary found at construction time.                          *)
(*                                                                         *)
(* Every method of the controller is one action.  What an external call    *)
(* does inside a method (the spawned process exits during a sleep,         *)
(* terminate() raises, taskkill fails, ...) is an input of the action,     *)
(* chosen with \E.  The calls a method made are recorded, in order, in the *)
(* variable calls as pairs <<name, value>>; the lines it printed are       *)
(* recorded in output.                                                     *)
(*                                                                         *)
(* Calls taken as total (they never raise): time.sleep, print,             *)
(* Popen.poll, and Popen.communicate on a process that has exited.         *)
(***************************************************************************)
EXTENDS Integers, Sequences, FiniteSets, TLC

VARIABLES
    constructed,    \* a VSCodeHelper object exists (__init__ returned)
    binaryExists,   \* environment: an application binary can be found
    process,        \* self.process: None or the pid of the Popen handle
    window,         \* self.window: None or the owner of the attached window
    app,            \* self.app: None or the instance connected to
    nspawn,         \* number of processes spawned by this controller
    alive,          \* environment: alive[p], is spawned process p running
    exitcode,       \* environment: exit code of spawned process p once exited
    others,         \* environment: instances of the application that this
                    \* controller did not spawn and that are running
    lastOp,         \* the operation whose result is pending, or "none"
    arg,            \* the argument of the last operation (timeout), or 0
    ret,            \* its return value: "True", "False", or "None"
    raised,         \* the exception it propagated to its caller, or NoExc
    output,         \* the diagnostic lines it printed, <<tag, value>>
    calls,          \* the calls it made, in order, <<name, value>>
    launchReturned, \* history: some launch() call returned without raising
    closed,         \* history: some close() call has returned
    fxPc,           \* test run: the step the fixtures and the test are at
    fxKind,         \* test run: the harness fixture the test function uses
    fxEvents,       \* test run: the events so far, in order
    fxFailed,       \* test run: the call phase of the test failed
    fxLaunch,       \* test run: what launch() returned in the fixture
    fxWindow,       \* test run: self.window when launch() returned
    ltPc,           \* test-local.py: position of LocalTester.run()
    ltArgs,         \* test-local.py: the parsed command line flags
    ltLog,          \* test-local.py: methods called by run(), with results
    ltVsix,         \* test-local.py: what package_extension() returned
    ltRet,          \* test-local.py: what run() returned
    ltRaised,       \* test-local.py: exception that left run()
    ksOp,           \* key delivery: the method applied to ksKeys
    ksWindow,       \* key delivery: whether a window is attached
    ksKeys,         \* key delivery: the key string, a sequence of characters
    ksVia,          \* key delivery: the facility the keys were handed to
    ksSent,         \* key delivery: the arguments handed to that facility
    esPc,           \* setup-environment.py: position of EnvironmentSetup.run()
    esArgs,         \* setup-environment.py: the parsed command line flags
    esLog,          \* setup-environment.py: methods called by run(), with results
    esRet,          \* setup-environment.py: what run() returned
    esRaised,       \* setup-environment.py: exception that left run()
    cvPc,           \* version comparison: position
    cvV1,           \* version comparison: components of the first version
    cvV2,           \* version comparison: components of the second version
    cvAB,           \* _compare_versions(first, second)
    cvBA,           \* _compare_versions(second, first)
    cvPad           \* _compare_versions(first, first + ".0")

harness == <<constructed, binaryExists, process, window, app, nspawn, alive,
             exitcode, others, lastOp, arg, ret, raised, output, calls,
             launchReturned, closed>>

fx == <<fxPc, fxKind, fxEvents, fxFailed, fxLaunch, fxWindow>>

lt == <<ltPc, ltArgs, ltLog, ltVsix, ltRet, ltRaised>>
ks == <<ksOp, ksWindow, ksKeys, ksVia, ksSent>>
es == <<esPc, esArgs, esLog, esRet, esRaised>>
cv == <<cvPc, cvV1, cvV2, cvAB, cvBA, cvPad>>
aux == <<fx, lt, ks, es, cv>>
notFx == <<lt, ks, es, cv>>             \* what a step of a test run leaves alone
notLt == <<harness, fx, ks, es, cv>>    \* what a step of test-local.py leaves alone
notKs == <<harness, fx, lt, es, cv>>    \* what a key delivery leaves alone
notEs == <<harness, fx, lt, ks, cv>>    \* what setup-environment.py leaves alone
notCv == <<harness, fx, lt, ks, es>>    \* what a version comparison leaves alone

vars == <<harness, aux>>

ctl == <<constructed, process, window, app>>
env == <<binaryExists, nspawn, alive, exitcode, others>>

----------------------------------------------------------------------------
(* Bounds *)

MaxSpawn == 2       \* processes one controller spawns in a run
MaxOthers == 1      \* other instances of the application on the host
PollHorizon == 6    \* the process may be seen exited at poll 1..PollHorizon

(* Values *)

None == 0                       \* a null handle
Foreign == 0 - 1                \* owner of a window of another instance
PIDs == 1..MaxSpawn
ExitCodes == {0, 1}
NoExc == "none"
DefaultWaitTime == 10           \* launch(wait_time=10)

Bit(b) == IF b THEN 1 ELSE 0

RunningPids == {p \in PIDs : alive[p]}

\* no process with the application's executable name is running
NoInstanceRunning == RunningPids = {} /\ others = 0

----------------------------------------------------------------------------
(* State after start: no controller object yet *)

HarnessInit ==
    /\ constructed = FALSE
    /\ binaryExists \in BOOLEAN
    /\ process = None
    /\ window = None
    /\ app = None
    /\ nspawn = 0
    /\ alive = [p \in PIDs |-> FALSE]
    /\ exitcode = [p \in PIDs |-> 0]
    /\ others \in 0..MaxOthers
    /\ lastOp = "none"
    /\ arg = 0
    /\ ret = "None"
    /\ raised = NoExc
    /\ output = <<>>
    /\ calls = <<>>
    /\ launchReturned = FALSE
    /\ closed = FALSE

\* no test run: the controller is driven by arbitrary calls
FxOff ==
    /\ fxPc = "off"
    /\ fxKind = "none"
    /\ fxEvents = <<>>
    /\ fxFailed = FALSE
    /\ fxLaunch = "None"
    /\ fxWindow = None

\* the flags of test-local.py that run() and the methods it calls look at
ArgSets ==
    [force : BOOLEAN, skip_tests : BOOLEAN, skip_clean : BOOLEAN,
     quick : BOOLEAN, fail_fast : BOOLEAN]

\* test-local.py is not running
LtOff ==
    /\ ltPc = "off"
    /\ ltArgs = [force |-> FALSE, skip_tests |-> FALSE, skip_clean |-> FALSE,
                 quick |-> FALSE, fail_fast |-> FALSE]
    /\ ltLog = <<>>
    /\ ltVsix = "None"
    /\ ltRet = "None"
    /\ ltRaised = NoExc

\* no key string is being delivered
KsOff ==
    /\ ksOp = "off"
    /\ ksWindow = FALSE
    /\ ksKeys = <<>>
    /\ ksVia = "none"
    /\ ksSent = <<>>

\* the flags of setup-environment.py that run() looks at
SetupArgSets == [ci : BOOLEAN, skip_optional : BOOLEAN]

\* setup-environment.py is not running
EsOff ==
    /\ esPc = "off"
    /\ esArgs = [ci |-> FALSE, skip_optional |-> FALSE]
    /\ esLog = <<>>
    /\ esRet = "None"
    /\ esRaised = NoExc

\* no versions are being compared
CvOff ==
    /\ cvPc = "off"
    /\ cvV1 = <<>>
    /\ cvV2 = <<>>
    /\ cvAB = 0
    /\ cvBA = 0
    /\ cvPad = 0

Init == HarnessInit /\ FxOff /\ LtOff /\ KsOff /\ EsOff /\ CvOff

----------------------------------------------------------------------------
(* Environment steps between two operations of the controller *)

EnvStep ==
    /\ lastOp' = "none"
    /\ arg' = 0
    /\ ret' = "None"
    /\ raised' = NoExc
    /\ output' = <<>>
    /\ calls' = <<>>
    /\ UNCHANGED <<ctl, launchReturned, closed>>

\* a spawned process exits on its own
ProcessExits ==
    /\ \E p \in RunningPids, c \in ExitCodes :
          /\ alive' = [alive EXCEPT ![p] = FALSE]
          /\ exitcode' = [exitcode EXCEPT ![p] = c]
    /\ EnvStep
    /\ UNCHANGED <<binaryExists, nspawn, others>>

\* somebody else starts, or ends, an instance of the application
OtherStarts ==
    /\ binaryExists
    /\ others < MaxOthers
    /\ others' = others + 1
    /\ EnvStep
    /\ UNCHANGED <<binaryExists, nspawn, alive, exitcode>>

OtherStops ==
    /\ others > 0
    /\ others' = others - 1
    /\ EnvStep
    /\ UNCHANGED <<binaryExists, nspawn, alive, exitcode>>

\* the application is installed, or removed
BinaryChanges ==
    /\ binaryExists' = ~binaryExists
    /\ EnvStep
    /\ UNCHANGED <<nspawn, alive, exitcode, others>>

----------------------------------------------------------------------------
(* find_vscode_executable(): the path found, or FileNotFoundError *)

\* variant: falls back to the last candidate path instead of raising
find_vscode_executable_fallback(exists) ==
    [path |-> TRUE, exc |-> NoExc]

find_vscode_executable(exists) ==
    IF exists THEN [path |-> TRUE, exc |-> NoExc]
              ELSE [path |-> FALSE, exc |-> "FileNotFoundError"]

(* VSCodeHelper.__init__ *)

Construct ==
    /\ ~constructed
    /\ LET f == find_vscode_executable(binaryExists) IN
          /\ constructed' = (f.exc = NoExc)
          /\ raised' = f.exc
          /\ calls' = <<<<"find_vscode_executable", Bit(f.path)>>>>
    /\ process' = None
    /\ window' = None
    /\ app' = None
    /\ lastOp' = "init"
    /\ arg' = 0
    /\ ret' = "None"
    /\ output' = <<>>
    /\ UNCHANGED <<env, launchReturned, closed>>

----------------------------------------------------------------------------
(* connect_to_window(): Application.connect matches any instance that has  *)
(* a window titled "...Visual Studio Code...", so the instance connected   *)
(* to is one of cands: the running processes of this controller and, when  *)
(* there is one, another instance on the host.  Each outcome gives the     *)
(* return value and the fields afterwards; caught is the exception that    *)
(* the method caught.  The windows of the instance are a sequence of       *)
(* booleans: whether the title of the window contains "Visual Studio       *)
(* Code"; inspected are the windows whose title the loop has read.         *)

MaxWindows == 2     \* windows of one instance

TitleLists == UNION {[1..n -> BOOLEAN] : n \in 0..MaxWindows}

\* variant: the loop goes on and keeps the last window with the title
LastMatching(titles) ==
    IF \E i \in 1..Len(titles) : titles[i]
    THEN CHOOSE i \in 1..Len(titles) :
            titles[i] /\ \A j \in (i + 1)..Len(titles) : ~titles[j]
    ELSE 0

\* "for window in windows: if ... in window.window_text():": the index of
\* the window at which the loop returns, 0 when it runs to the end
FirstMatching(titles) ==
    IF \E i \in 1..Len(titles) : titles[i]
    THEN CHOOSE i \in 1..Len(titles) :
            titles[i] /\ \A j \in 1..(i - 1) : ~titles[j]
    ELSE 0

connect_to_window(curApp, curWindow, cands) ==
    \* connect() raised: nothing assigned
    {[ret |-> FALSE, app |-> curApp, window |-> curWindow, caught |-> e,
      connected |-> FALSE, inspected |-> <<>>] :
        e \in {"ElementNotFoundError", "Exception"}}
    \cup
    \* connected, but app.windows() raised
    {[ret |-> FALSE, app |-> o, window |-> curWindow, caught |-> "Exception",
      connected |-> TRUE, inspected |-> <<>>] : o \in cands}
    \cup
    \* connected, and the loop over app.windows() ran
    {LET k == FirstMatching(titles) IN
     IF k > 0
     THEN [ret |-> TRUE, app |-> o, window |-> o, caught |-> NoExc,
           connected |-> TRUE, inspected |-> SubSeq(titles, 1, k)]
     ELSE [ret |-> FALSE, app |-> o, window |-> curWindow, caught |-> NoExc,
           connected |-> TRUE, inspected |-> titles] :
        o \in cands, titles \in TitleLists}

\* the instances that can have a matching window while pids are running
Candidates(pids) == pids \cup (IF others > 0 THEN {Foreign} ELSE {})

(* VSCodeHelper.connect_to_window called by a test *)

ConnectToWindow ==
    /\ constructed
    /\ \E c \in connect_to_window(app, window, Candidates(RunningPids)) :
          /\ app' = c.app
          /\ window' = c.window
          /\ ret' = IF c.ret THEN "True" ELSE "False"
          /\ output' = IF c.caught = NoExc THEN <<>>
                       ELSE <<<<"Failed to connect", 0>>>>
          /\ calls' = <<<<"connect", Bit(c.connected)>>>>
                      \o [i \in 1..Len(c.inspected) |->
                            <<"window_text", Bit(c.inspected[i])>>]
    /\ lastOp' = "connect"
    /\ arg' = 0
    /\ raised' = NoExc
    /\ UNCHANGED <<constructed, process, env, launchReturned, closed>>

----------------------------------------------------------------------------
(* VSCodeHelper.launch *)

\* os.makedirs of the default test workspace runs before the try block
LaunchMakedirsRaises(wsGiven, dirExists, mkdirOk) ==
    ~wsGiven /\ ~dirExists /\ ~mkdirOk

\* variant: the handler also resets self.process
LaunchSpawnFailedReset(curProcess, exc) ==
    [ret |-> "False", raised |-> NoExc, process |-> None,
     output |-> <<<<"Failed to launch VS Code", 0>>>>,
     calls |-> <<<<"Popen", 0>>>>]

\* subprocess.Popen raised: the handler prints and returns False, and
\* self.process keeps the value it had
LaunchSpawnFailed(curProcess, exc) ==
    [ret |-> "False", raised |-> NoExc, process |-> curProcess,
     output |-> <<<<"Failed to launch VS Code", 0>>>>,
     calls |-> <<<<"Popen", 0>>>>]

\* variant: the exit code is not printed
LaunchExitedEarlyNoCode(pid, code) ==
    [ret |-> "False", raised |-> NoExc, process |-> pid,
     output |-> <<<<"VS Code process started with PID", pid>>>>,
     calls |-> <<<<"Popen", pid>>, <<"sleep", DefaultWaitTime>>,
                 <<"poll", 0>>, <<"communicate", 0>>>>]

\* the process had exited when polled after the sleep
LaunchExitedEarly(pid, code) ==
    [ret |-> "False", raised |-> NoExc, process |-> pid,
     output |-> <<<<"VS Code process started with PID", pid>>,
                  <<"VS Code exited early with code", code>>>>,
     calls |-> <<<<"Popen", pid>>, <<"sleep", DefaultWaitTime>>,
                 <<"poll", 0>>, <<"communicate", 0>>>>]

\* the window was attached
LaunchAttached(pid) ==
    [ret |-> "True", raised |-> NoExc, process |-> pid,
     output |-> <<<<"VS Code process started with PID", pid>>>>,
     calls |-> <<<<"Popen", pid>>, <<"sleep", DefaultWaitTime>>,
                 <<"poll", 1>>, <<"connect_to_window", 1>>>>]

\* variant: a failed attachment fails the launch
LaunchUnattachedFails(pid, aliveNow) ==
    [ret |-> "False", raised |-> NoExc, process |-> pid,
     output |-> <<<<"VS Code process started with PID", pid>>,
                  <<"Warning: Could not connect to VS Code window", 0>>>>,
     calls |-> <<<<"Popen", pid>>, <<"sleep", DefaultWaitTime>>,
                 <<"poll", 1>>, <<"connect_to_window", 0>>,
                 <<"poll", Bit(aliveNow)>>>>]

\* the window was not attached: the process is polled again
LaunchUnattached(pid, aliveNow) ==
    [ret |-> IF aliveNow THEN "True" ELSE "False",
     raised |-> NoExc, process |-> pid,
     output |-> <<<<"VS Code process started with PID", pid>>,
                  <<"Warning: Could not connect to VS Code window", 0>>>>,
     calls |-> <<<<"Popen", pid>>, <<"sleep", DefaultWaitTime>>,
                 <<"poll", 1>>, <<"connect_to_window", 0>>,
                 <<"poll", Bit(aliveNow)>>>>]

\* exception raised by Popen
SpawnError == IF binaryExists THEN "OSError" ELSE "FileNotFoundError"

Launch ==
    /\ constructed
    /\ lastOp' = "launch"
    /\ arg' = 0
    /\ \E mkRaises \in {LaunchMakedirsRaises(wsGiven, dirExists, mkdirOk) :
                          wsGiven \in BOOLEAN, dirExists \in BOOLEAN,
                          mkdirOk \in BOOLEAN} :
        IF mkRaises
        THEN \* launch() raises before the try block
             /\ ret' = "None"
             /\ raised' = "OSError"
             /\ output' = <<>>
             /\ calls' = <<<<"makedirs", 0>>>>
             /\ UNCHANGED <<ctl, env, launchReturned, closed>>
        ELSE
          /\ launchReturned' = TRUE
          /\ UNCHANGED closed
          /\ UNCHANGED <<constructed, binaryExists, others>>
          /\ \/ \* Popen raises
                LET r == LaunchSpawnFailed(process, SpawnError) IN
                /\ ret' = r.ret
                /\ raised' = r.raised
                /\ process' = r.process
                /\ output' = r.output
                /\ calls' = r.calls
                /\ UNCHANGED <<window, app, nspawn, alive, exitcode>>
             \/ \* Popen returns a handle
                /\ binaryExists
                /\ nspawn < MaxSpawn
                /\ LET pid == nspawn + 1 IN
                   /\ nspawn' = pid
                   /\ \/ \* the process exits during the sleep
                         \E code \in ExitCodes :
                         LET r == LaunchExitedEarly(pid, code) IN
                         /\ ret' = r.ret
                         /\ raised' = r.raised
                         /\ process' = r.process
                         /\ output' = r.output
                         /\ calls' = r.calls
                         /\ alive' = [alive EXCEPT ![pid] = FALSE]
                         /\ exitcode' = [exitcode EXCEPT ![pid] = code]
                         /\ UNCHANGED <<window, app>>
                      \/ \* the process is running after the sleep; it
                         \* may exit while connect_to_window runs
                         \E c \in connect_to_window(app, window,
                                     Candidates(RunningPids \cup {pid})),
                            exits \in BOOLEAN :
                         \E code \in IF exits THEN ExitCodes ELSE {0} :
                         LET r == IF c.ret THEN LaunchAttached(pid)
                                  ELSE LaunchUnattached(pid, ~exits) IN
                         /\ ret' = r.ret
                         /\ raised' = r.raised
                         /\ process' = r.process
                         /\ output' = r.output
                         /\ calls' = r.calls
                         /\ app' = c.app
                         /\ window' = c.window
                         /\ alive' = [alive EXCEPT ![pid] = ~exits]
                         /\ exitcode' = IF exits
                                        THEN [exitcode EXCEPT ![pid] = code]
                                        ELSE exitcode


----------------------------------------------------------------------------
(* VSCodeHelper.wait_for_extension *)

StabilizeSleep == 5     \* time.sleep(5) before the first poll
PollSleep == 2          \* time.sleep(2) at the end of a loop iteration
LoadedThreshold == 10   \* elapsed > 10: "assuming extension has loaded"
Timeouts == {5, 6, 10, 12, 15, 20, 30}

\* what the i-th poll() of the call sees, for a process that was running
\* (a) when the call started and is first seen exited at poll d (0: never)
PollAlive(a, d, i) == a /\ (d = 0 \/ i < d)

\* the while loop, entered at elapsed time t after n polls
RECURSIVE WfeLoop(_, _, _, _, _, _, _)
WfeLoop(t, n, hasProc, a, d, timeout, log) ==
    IF ~(t < timeout)
    THEN [ret |-> TRUE, calls |-> log]
    ELSE IF hasProc /\ PollAlive(a, d, n + 1)
         THEN IF t > LoadedThreshold
              THEN [ret |-> TRUE, calls |-> Append(log, <<"poll", 1>>)]
              ELSE WfeLoop(t + PollSleep, n + 1, hasProc, a, d, timeout,
                           log \o <<<<"poll", 1>>, <<"sleep", PollSleep>>>>)
         ELSE [ret |-> FALSE,
               calls |-> IF hasProc THEN Append(log, <<"poll", 0>>) ELSE log]

\* variant: one more sleep before True is returned
wait_for_extension_lingers(hasProc, a, d, timeout) ==
    LET log0 == <<<<"sleep", StabilizeSleep>>>>
        r == IF hasProc /\ ~PollAlive(a, d, 1)
             THEN [ret |-> FALSE, calls |-> Append(log0, <<"poll", 0>>)]
             ELSE WfeLoop(StabilizeSleep, Bit(hasProc), hasProc, a, d,
                          timeout,
                          IF hasProc THEN Append(log0, <<"poll", 1>>)
                          ELSE log0)
    IN IF r.ret
       THEN [ret |-> TRUE, calls |-> Append(r.calls, <<"sleep", PollSleep>>)]
       ELSE r

\* variant: returns True as soon as the process is seen running after the
\* stabilization sleep
wait_for_extension_eager(hasProc, a, d, timeout) ==
    LET log0 == <<<<"sleep", StabilizeSleep>>>> IN
    IF hasProc /\ ~PollAlive(a, d, 1)
    THEN [ret |-> FALSE, calls |-> Append(log0, <<"poll", 0>>)]
    ELSE [ret |-> TRUE,
          calls |-> IF hasProc THEN Append(log0, <<"poll", 1>>) ELSE log0]

wait_for_extension(hasProc, a, d, timeout) ==
    LET log0 == <<<<"sleep", StabilizeSleep>>>> IN
    IF hasProc /\ ~PollAlive(a, d, 1)
    THEN [ret |-> FALSE, calls |-> Append(log0, <<"poll", 0>>)]
    ELSE WfeLoop(StabilizeSleep, Bit(hasProc), hasProc, a, d, timeout,
                 IF hasProc THEN Append(log0, <<"poll", 1>>) ELSE log0)

\* calls of a given name and value in a log
Count(log, name, v) ==
    Cardinality({i \in 1..Len(log) : log[i] = <<name, v>>})

CountName(log, name) ==
    Cardinality({i \in 1..Len(log) : log[i][1] = name})

\* time slept in a log
RECURSIVE Elapsed(_)
Elapsed(log) ==
    IF log = <<>> THEN 0
    ELSE (IF Head(log)[1] = "sleep" THEN Head(log)[2] ELSE 0)
         + Elapsed(Tail(log))

WaitForExtension ==
    /\ constructed
    /\ \E timeout \in Timeouts :
       LET hasProc == process # None
           a == hasProc /\ alive[process]
       IN
       \E r \in {wait_for_extension(hasProc, a, d, timeout) :
                    d \in 0..PollHorizon} :
       LET seenExited == a /\ Count(r.calls, "poll", 0) > 0 IN
       \E code \in IF seenExited THEN ExitCodes ELSE {0} :
          /\ arg' = timeout
          /\ ret' = IF r.ret THEN "True" ELSE "False"
          /\ calls' = r.calls
          /\ alive' = IF seenExited
                      THEN [alive EXCEPT ![process] = FALSE] ELSE alive
          /\ exitcode' = IF seenExited
                         THEN [exitcode EXCEPT ![process] = code]
                         ELSE exitcode
    /\ lastOp' = "wait"
    /\ raised' = NoExc
    /\ output' = <<>>
    /\ UNCHANGED <<ctl, binaryExists, nspawn, others, launchReturned, closed>>

----------------------------------------------------------------------------
(* VSCodeHelper.close *)

WaitOutcomes == {"exited", "timeout"}
TaskkillOutcomes == {"killed", "nothing", "raised"}

\* variant: kill() follows terminate() and the first wait even when the
\* process exited within that wait
CloseGracefulAlwaysKills(proc, win, procAlive, termOk, w1, killOk, w2, wcOk) ==
    IF proc # None
    THEN IF ~termOk
         THEN [calls |-> <<<<"terminate", 0>>>>, exc |-> "OSError",
               exited |-> ~procAlive]
         ELSE [calls |-> <<<<"terminate", 1>>,
                           <<"wait", Bit(~procAlive \/ w1 = "exited")>>,
                           <<"kill", 1>>, <<"wait", 1>>>>,
               exc |-> NoExc, exited |-> TRUE]
    ELSE IF win # None
    THEN [calls |-> <<<<"window.close", 1>>, <<"sleep", 2>>>>,
          exc |-> NoExc, exited |-> FALSE]
    ELSE [calls |-> <<>>, exc |-> NoExc, exited |-> FALSE]

\* the try block: terminate / wait(3) / kill / wait(2) on the process, or
\* window.close() when there is no process but a window.  exc is the
\* exception that leaves the block, exited says that the process is no
\* longer running after it.
CloseGraceful(proc, win, procAlive, termOk, w1, killOk, w2, wcOk) ==
    IF proc # None
    THEN IF ~termOk
         THEN [calls |-> <<<<"terminate", 0>>>>, exc |-> "OSError",
               exited |-> ~procAlive]
         ELSE IF ~procAlive \/ w1 = "exited"
         THEN [calls |-> <<<<"terminate", 1>>, <<"wait", 1>>>>,
               exc |-> NoExc, exited |-> TRUE]
         ELSE IF ~killOk
         THEN [calls |-> <<<<"terminate", 1>>, <<"wait", 0>>,
                           <<"kill", 0>>>>,
               exc |-> "OSError", exited |-> FALSE]
         ELSE IF w2 = "exited"
         THEN [calls |-> <<<<"terminate", 1>>, <<"wait", 0>>,
                           <<"kill", 1>>, <<"wait", 1>>>>,
               exc |-> NoExc, exited |-> TRUE]
         ELSE [calls |-> <<<<"terminate", 1>>, <<"wait", 0>>,
                           <<"kill", 1>>, <<"wait", 0>>>>,
               exc |-> "TimeoutExpired", exited |-> FALSE]
    ELSE IF win # None
    THEN IF wcOk
         THEN [calls |-> <<<<"window.close", 1>>, <<"sleep", 2>>>>,
               exc |-> NoExc, exited |-> FALSE]
         ELSE [calls |-> <<<<"window.close", 0>>>>, exc |-> "Exception",
               exited |-> FALSE]
    ELSE [calls |-> <<>>, exc |-> NoExc, exited |-> FALSE]

\* variant: no handler, the exception leaves the try statement
CloseExceptPropagates(e) == e

\* "except Exception as e": prints, and lets nothing leave the try statement
CloseExcept(e) == NoExc

\* the bare "except: pass" around the taskkill call
CloseFinallyExcept(e) == NoExc

\* variant: taskkill at the end of the try block instead of in finally
CloseCallsInTry(g, tk) ==
    IF g.exc = NoExc
    THEN g.calls \o <<<<"taskkill", Bit(tk # "raised")>>>>
    ELSE g.calls

\* the calls of one close(): the finally block runs taskkill after the
\* try block, whatever the try block did
CloseCalls(g, tk) ==
    g.calls \o <<<<"taskkill", Bit(tk # "raised")>>>>

\* variant: close() forgets the handles
CloseFieldsReset(proc, win, ap) ==
    [process |-> None, window |-> None, app |-> None]

\* the fields after close(): it assigns none of them
CloseFields(proc, win, ap) ==
    [process |-> proc, window |-> win, app |-> ap]

Close ==
    /\ constructed
    /\ LET procAlive == process # None /\ alive[process] IN
       \E g \in {CloseGraceful(process, window, procAlive, termOk, w1,
                               killOk, w2, wcOk) :
                    termOk \in BOOLEAN, w1 \in WaitOutcomes,
                    killOk \in BOOLEAN, w2 \in WaitOutcomes,
                    wcOk \in BOOLEAN},
          tk \in TaskkillOutcomes, code \in ExitCodes :
       LET log == CloseCalls(g, tk)
           tkRan == CountName(log, "taskkill") > 0
           aliveG == IF procAlive /\ g.exited
                     THEN [alive EXCEPT ![process] = FALSE] ELSE alive
           codeG == IF procAlive /\ g.exited
                    THEN [exitcode EXCEPT ![process] = code]
                    ELSE exitcode
           tkExc == IF tkRan /\ tk = "raised" THEN "OSError" ELSE NoExc
           killedAll == tkRan /\ tk = "killed"
       IN
          \* taskkill returns 0 only if it ended some process
          /\ tk = "killed" =>
                (\E p \in PIDs : aliveG[p]) \/ others > 0
          /\ calls' = log
          /\ raised' = IF CloseFinallyExcept(tkExc) # NoExc
                       THEN CloseFinallyExcept(tkExc)
                       ELSE CloseExcept(g.exc)
          /\ output' = <<<<"Closing VS Code", 0>>>>
                       \o (IF g.exc # NoExc
                           THEN <<<<"Error closing VS Code", 0>>>>
                           ELSE <<>>)
                       \o (IF killedAll
                           THEN <<<<"Killed remaining VS Code processes", 0>>>>
                           ELSE <<>>)
          /\ alive' = IF killedAll THEN [p \in PIDs |-> FALSE] ELSE aliveG
          /\ exitcode' = IF killedAll
                         THEN [p \in PIDs |->
                                 IF aliveG[p] THEN code ELSE codeG[p]]
                         ELSE codeG
          /\ others' = IF killedAll THEN 0 ELSE others
    /\ lastOp' = "close"
    /\ arg' = 0
    /\ ret' = "None"
    /\ closed' = TRUE
    /\ process' = CloseFields(process, window, app).process
    /\ window' = CloseFields(process, window, app).window
    /\ app' = CloseFields(process, window, app).app
    /\ UNCHANGED <<constructed, binaryExists, nspawn, launchReturned>>

----------------------------------------------------------------------------
(* VSCodeHelper.send_keys.  A key string is the sequence of its characters. *)
(* Sleeps shorter than a second are not recorded in calls.                  *)

CtrlShiftP == <<"^", "+", "p">>
CtrlShiftE == <<"^", "+", "e">>
EnterKey == <<"{", "E", "N", "T", "E", "R", "}">>
EscKey == <<"{", "E", "S", "C", "}">>
KeyStrings == {CtrlShiftP, CtrlShiftE, EnterKey, EscKey}

\* '+' in keys
HasPlus(keys) == \E i \in 1..Len(keys) : keys[i] = "+"

\* exc is the exception that send_keys lets through to its caller
send_keys(win, keys, focusOk, typeOk, guiOk) ==
    IF win # None
    THEN IF ~focusOk
         THEN [calls |-> <<<<"window.set_focus", 0>>>>, exc |-> "Exception"]
         ELSE IF ~typeOk
         THEN [calls |-> <<<<"window.set_focus", 1>>,
                           <<"window.type_keys", 0>>>>,
               exc |-> "Exception"]
         ELSE [calls |-> <<<<"window.set_focus", 1>>,
                           <<"window.type_keys", 1>>>>,
               exc |-> NoExc]
    ELSE IF HasPlus(keys)
         THEN [calls |-> <<<<"pyautogui.hotkey", Bit(guiOk)>>>>,
               exc |-> IF guiOk THEN NoExc ELSE "Exception"]
         ELSE [calls |-> <<<<"pyautogui.press", Bit(guiOk)>>>>,
               exc |-> IF guiOk THEN NoExc ELSE "Exception"]

SendKeys ==
    /\ constructed
    /\ \E s \in {send_keys(window, keys, focusOk, typeOk, guiOk) :
                    keys \in KeyStrings, focusOk \in BOOLEAN,
                    typeOk \in BOOLEAN, guiOk \in BOOLEAN} :
          /\ calls' = s.calls
          /\ raised' = s.exc
    /\ lastOp' = "send_keys"
    /\ arg' = 0
    /\ ret' = "None"
    /\ output' = <<>>
    /\ UNCHANGED <<ctl, env, launchReturned, closed>>

----------------------------------------------------------------------------
(* VSCodeHelper.open_command_palette *)

open_command_palette(win, focusOk, typeOk, guiOk) ==
    LET s == send_keys(win, CtrlShiftP, focusOk, typeOk, guiOk) IN
    IF s.exc = NoExc
    THEN [ret |-> TRUE, exc |-> NoExc,
          calls |-> Append(s.calls, <<"sleep", 1>>)]
    ELSE [ret |-> FALSE, exc |-> NoExc, calls |-> s.calls]

OpenCommandPalette ==
    /\ constructed
    /\ \E r \in {open_command_palette(window, focusOk, typeOk, guiOk) :
                    focusOk \in BOOLEAN, typeOk \in BOOLEAN,
                    guiOk \in BOOLEAN} :
          /\ calls' = r.calls
          /\ raised' = r.exc
          /\ ret' = IF r.ret THEN "True" ELSE "False"
          /\ output' = IF r.ret THEN <<>>
                       ELSE <<<<"Failed to open command palette", 0>>>>
    /\ lastOp' = "open_command_palette"
    /\ arg' = 0
    /\ UNCHANGED <<ctl, env, launchReturned, closed>>

----------------------------------------------------------------------------
(* VSCodeHelper.run_command: ok1 are the outcomes of the calls made while  *)
(* opening the palette, twOk that of pyautogui.typewrite, ok2 those of     *)
(* sending Enter; each of ok1, ok2 is <<focusOk, typeOk, guiOk>>.          *)

\* variant: the result of open_command_palette() is not looked at
run_command_types_anyway(win, ok1, twOk, ok2) ==
    LET p == open_command_palette(win, ok1[1], ok1[2], ok1[3])
        e == send_keys(win, EnterKey, ok2[1], ok2[2], ok2[3])
    IN
    IF ~twOk
    THEN [ret |-> FALSE, exc |-> NoExc, printed |-> "run_command",
          calls |-> Append(p.calls, <<"pyautogui.typewrite", 0>>)]
    ELSE IF e.exc # NoExc
    THEN [ret |-> FALSE, exc |-> NoExc, printed |-> "run_command",
          calls |-> p.calls \o <<<<"pyautogui.typewrite", 1>>,
                                 <<"sleep", 1>>>> \o e.calls]
    ELSE [ret |-> p.ret, exc |-> NoExc, printed |-> "",
          calls |-> p.calls \o <<<<"pyautogui.typewrite", 1>>,
                                 <<"sleep", 1>>>> \o e.calls
                            \o <<<<"sleep", 2>>>>]

\* printed names the method whose handler printed a failure message
run_command(win, ok1, twOk, ok2) ==
    LET p == open_command_palette(win, ok1[1], ok1[2], ok1[3])
        e == send_keys(win, EnterKey, ok2[1], ok2[2], ok2[3])
    IN
    IF ~p.ret
    THEN [ret |-> FALSE, exc |-> NoExc, printed |-> "open_command_palette",
          calls |-> p.calls]
    ELSE IF ~twOk
    THEN [ret |-> FALSE, exc |-> NoExc, printed |-> "run_command",
          calls |-> Append(p.calls, <<"pyautogui.typewrite", 0>>)]
    ELSE IF e.exc # NoExc
    THEN [ret |-> FALSE, exc |-> NoExc, printed |-> "run_command",
          calls |-> p.calls \o <<<<"pyautogui.typewrite", 1>>,
                                 <<"sleep", 1>>>> \o e.calls]
    ELSE [ret |-> TRUE, exc |-> NoExc, printed |-> "",
          calls |-> p.calls \o <<<<"pyautogui.typewrite", 1>>,
                                 <<"sleep", 1>>>> \o e.calls
                            \o <<<<"sleep", 2>>>>]

OkTriples == BOOLEAN \X BOOLEAN \X BOOLEAN

RunCommand ==
    /\ constructed
    /\ \E r \in {run_command(window, ok1, twOk, ok2) :
                    ok1 \in OkTriples, twOk \in BOOLEAN, ok2 \in OkTriples} :
          /\ calls' = r.calls
          /\ raised' = r.exc
          /\ ret' = IF r.ret THEN "True" ELSE "False"
          /\ output' = IF r.printed = "run_command"
                       THEN <<<<"Failed to run command", 0>>>>
                       ELSE IF r.printed = "open_command_palette"
                       THEN <<<<"Failed to open command palette", 0>>>>
                       ELSE <<>>
    /\ lastOp' = "run_command"
    /\ arg' = 0
    /\ UNCHANGED <<ctl, env, launchReturned, closed>>

----------------------------------------------------------------------------
(* VSCodeHelper.find_text: descOk says that window.descendants() returned, *)
(* found that the text of some element contains the text searched (an      *)
(* element whose text cannot be read counts as no match).                  *)

\* variant: no window check and no handler around the search
find_text_unguarded(win, descOk, found) ==
    IF win = None
    THEN [ret |-> "None", exc |-> "AttributeError",
          calls |-> <<<<"window.descendants", 0>>>>]
    ELSE IF ~descOk
    THEN [ret |-> "None", exc |-> "Exception",
          calls |-> <<<<"window.descendants", 0>>>>]
    ELSE [ret |-> IF found THEN "True" ELSE "False", exc |-> NoExc,
          calls |-> <<<<"window.descendants", 1>>>>]

find_text(win, descOk, found) ==
    IF win # None
    THEN IF ~descOk
         THEN [ret |-> "False", exc |-> NoExc,
               calls |-> <<<<"window.descendants", 0>>>>]
         ELSE [ret |-> IF found THEN "True" ELSE "False", exc |-> NoExc,
               calls |-> <<<<"window.descendants", 1>>>>]
    ELSE [ret |-> "False", exc |-> NoExc, calls |-> <<>>]

FindText ==
    /\ constructed
    /\ \E r \in {find_text(window, descOk, found) :
                    descOk \in BOOLEAN, found \in BOOLEAN} :
          /\ calls' = r.calls
          /\ raised' = r.exc
          /\ ret' = r.ret
          /\ output' = IF r.calls = <<<<"window.descendants", 0>>>>
                       THEN <<<<"Error searching for text", 0>>>>
                       ELSE <<>>
    /\ lastOp' = "find_text"
    /\ arg' = 0
    /\ UNCHANGED <<ctl, env, launchReturned, closed>>

----------------------------------------------------------------------------
(* VSCodeHelper.take_screenshot: mkdirOk says that os.makedirs of the     *)
(* screenshots directory returned (it runs before the try block; on        *)
(* Windows, where the harness runs, get_project_root() does not raise),    *)
(* captureOk that the capture of the window, or of the full screen, and    *)
(* the save of the image succeeded.                                        *)
(* ret is "path" for the path of the file, "" for the empty string;        *)
(* window is self.window afterwards.                                       *)

\* variant: a failed capture drops the window handle
take_screenshot_drops(win, mkdirOk, captureOk) ==
    IF ~mkdirOk
    THEN [ret |-> "None", exc |-> "OSError", window |-> win,
          calls |-> <<<<"get_project_root", 1>>, <<"makedirs", 0>>>>]
    ELSE [ret |-> IF captureOk THEN "path" ELSE "", exc |-> NoExc,
          window |-> IF captureOk THEN win ELSE None,
          calls |-> <<<<"get_project_root", 1>>, <<"makedirs", 1>>,
                      IF win # None
                      THEN <<"window.capture_as_image", Bit(captureOk)>>
                      ELSE <<"pyautogui.screenshot", Bit(captureOk)>>>>]

\* variant: no handler around the capture
take_screenshot_unhandled(win, mkdirOk, captureOk) ==
    IF ~mkdirOk
    THEN [ret |-> "None", exc |-> "OSError", window |-> win,
          calls |-> <<<<"get_project_root", 1>>, <<"makedirs", 0>>>>]
    ELSE [ret |-> IF captureOk THEN "path" ELSE "None",
          exc |-> IF captureOk THEN NoExc ELSE "Exception",
          window |-> win,
          calls |-> <<<<"get_project_root", 1>>, <<"makedirs", 1>>,
                      IF win # None
                      THEN <<"window.capture_as_image", Bit(captureOk)>>
                      ELSE <<"pyautogui.screenshot", Bit(captureOk)>>>>]

take_screenshot(win, mkdirOk, captureOk) ==
    IF ~mkdirOk
    THEN [ret |-> "None", exc |-> "OSError", window |-> win,
          calls |-> <<<<"get_project_root", 1>>, <<"makedirs", 0>>>>]
    ELSE [ret |-> IF captureOk THEN "path" ELSE "", exc |-> NoExc,
          window |-> win,
          calls |-> <<<<"get_project_root", 1>>, <<"makedirs", 1>>,
                      IF win # None
                      THEN <<"window.capture_as_image", Bit(captureOk)>>
                      ELSE <<"pyautogui.screenshot", Bit(captureOk)>>>>]

TakeScreenshot ==
    /\ constructed
    /\ \E r \in {take_screenshot(window, mkdirOk, captureOk) :
                    mkdirOk \in BOOLEAN, captureOk \in BOOLEAN} :
          /\ calls' = r.calls
          /\ raised' = r.exc
          /\ ret' = r.ret
          /\ window' = r.window
          /\ output' = IF r.ret = "path"
                       THEN <<<<"Screenshot saved", 0>>>>
                       ELSE IF r.ret = ""
                       THEN <<<<"Failed to take screenshot", 0>>>>
                       ELSE <<>>
    /\ lastOp' = "take_screenshot"
    /\ arg' = 0
    /\ UNCHANGED <<constructed, process, app, env, launchReturned, closed>>

----------------------------------------------------------------------------
(* The controller driven by arbitrary calls of its methods.  The harness  *)
(* is single-threaded and synchronous: a call is made, and the            *)
(* environment moves, only when the caller has taken the result of the    *)
(* previous call.                                                          *)

\* no result is pending
Returned == lastOp = "none"

\* the caller takes the result of the last call
Return ==
    /\ ~Returned
    /\ lastOp' = "none"
    /\ arg' = 0
    /\ ret' = "None"
    /\ raised' = NoExc
    /\ output' = <<>>
    /\ calls' = <<>>
    /\ UNCHANGED <<ctl, env, launchReturned, closed>>

Next ==
    \/ Returned /\ Construct /\ UNCHANGED aux
    \/ Returned /\ Launch /\ UNCHANGED aux
    \/ Returned /\ ConnectToWindow /\ UNCHANGED aux
    \/ Returned /\ WaitForExtension /\ UNCHANGED aux
    \/ Returned /\ Close /\ UNCHANGED aux
    \/ Returned /\ SendKeys /\ UNCHANGED aux
    \/ Returned /\ OpenCommandPalette /\ UNCHANGED aux
    \/ Returned /\ RunCommand /\ UNCHANGED aux
    \/ Returned /\ FindText /\ UNCHANGED aux
    \/ Returned /\ TakeScreenshot /\ UNCHANGED aux
    \/ Returned /\ ProcessExits /\ UNCHANGED aux
    \/ Returned /\ OtherStarts /\ UNCHANGED aux
    \/ Returned /\ OtherStops /\ UNCHANGED aux
    \/ Returned /\ BinaryChanges /\ UNCHANGED aux
    \/ Return /\ UNCHANGED aux

Spec == Init /\ [][Next]_vars


----------------------------------------------------------------------------
(* One test function run by pytest with the fixtures of conftest.py.       *)
(* fxKind is the harness fixture the test uses.  pytest sets up the        *)
(* autouse fixture screenshot_on_failure first (it does nothing before its *)
(* yield) and tears it down last, so the steps are: harness fixture up to  *)
(* its yield, the test body, the rest of the harness fixture, the rest of  *)
(* screenshot_on_failure.                                                  *)

MaxBodyOps == 2     \* calls on the controller made by one test body

FixtureKinds == {"vscode", "vscode_with_workspace"}

FixtureInit ==
    /\ HarnessInit
    /\ fxPc = "start"
    /\ fxKind \in FixtureKinds
    /\ fxEvents = <<>>
    /\ fxFailed = FALSE
    /\ fxLaunch = "None"
    /\ fxWindow = None
    /\ LtOff
    /\ KsOff
    /\ EsOff
    /\ CvOff

\* vscode: taskkill of running instances before the controller is made;
\* vscode_with_workspace: the workspace directory is created
FxPrepare ==
    /\ fxPc = "start"
    /\ fxPc' = "construct"
    /\ IF fxKind = "vscode"
       THEN \E tk \in TaskkillOutcomes :
               /\ tk = "killed" => others > 0
               /\ others' = IF tk = "killed" THEN 0 ELSE others
       ELSE UNCHANGED others
    /\ UNCHANGED <<ctl, binaryExists, nspawn, alive, exitcode, lastOp, arg,
                   ret, raised, output, calls, launchReturned, closed>>
    /\ UNCHANGED <<fxKind, fxEvents, fxFailed, fxLaunch, fxWindow>>
    /\ UNCHANGED notFx

\* helper = VSCodeHelper()
FxConstruct ==
    /\ fxPc = "construct"
    /\ Construct
    /\ fxPc' = IF raised' = NoExc THEN "launch" ELSE "error"
    /\ fxEvents' = Append(fxEvents, "construct")
    /\ UNCHANGED <<fxKind, fxFailed, fxLaunch, fxWindow>>
    /\ UNCHANGED notFx

\* variant: the result of launch() is not looked at
FixtureYieldsAlways(launchRet, launchRaised) ==
    launchRaised = NoExc

\* "if not helper.launch(): pytest.fail(...)", then "yield helper"
FixtureYields(launchRet, launchRaised) ==
    launchRaised = NoExc /\ launchRet = "True"

FxLaunch ==
    /\ fxPc = "launch"
    /\ Launch
    /\ fxPc' = IF FixtureYields(ret', raised') THEN "yield" ELSE "error"
    /\ fxEvents' = Append(fxEvents, "launch")
    /\ fxLaunch' = ret'
    /\ fxWindow' = window'
    /\ UNCHANGED <<fxKind, fxFailed>>
    /\ UNCHANGED notFx

\* the test function is called with the controller
FxBodyStarts ==
    /\ fxPc = "yield"
    /\ fxPc' = "body"
    /\ fxEvents' = Append(fxEvents, "body")
    /\ UNCHANGED harness
    /\ UNCHANGED <<fxKind, fxFailed, fxLaunch, fxWindow>>
    /\ UNCHANGED notFx

\* events of the test body so far
BodyOps == IF Len(fxEvents) > 3 THEN SubSeq(fxEvents, 4, Len(fxEvents))
           ELSE <<>>

\* the test body can make one more call on the controller
FxBodyReady ==
    /\ fxPc = "body"
    /\ Returned
    /\ Len(BodyOps) < MaxBodyOps

\* a call of the test body on the controller; an exception that the call
\* lets through ends the test as failed
FxBodyOp(name) ==
    /\ fxEvents' = Append(fxEvents, name)
    /\ fxFailed' = (raised' # NoExc)
    /\ fxPc' = IF raised' # NoExc THEN "teardown" ELSE "body"
    /\ UNCHANGED <<fxKind, fxLaunch, fxWindow>>
    /\ UNCHANGED notFx

\* the test body has looked at the result of its last call
FxReturn ==
    /\ fxPc = "body"
    /\ Return
    /\ UNCHANGED fx
    /\ UNCHANGED notFx

\* the test body ends: it returns, or one of its assertions fails
FxBodyEnds ==
    /\ fxPc = "body"
    /\ Returned
    /\ fxPc' = "teardown"
    /\ fxFailed' \in BOOLEAN
    /\ UNCHANGED harness
    /\ UNCHANGED <<fxKind, fxEvents, fxLaunch, fxWindow>>
    /\ UNCHANGED notFx

\* variant: the code after yield runs only when the test passed
FixtureTeardownIfPassed(failed) == ~failed

\* the code after "yield helper" runs whether the test passed or failed
FixtureTeardown(failed) == TRUE

\* helper.close() after the yield of the harness fixture
FxClose ==
    /\ fxPc = "teardown"
    /\ fxPc' = "hook"
    /\ IF FixtureTeardown(fxFailed)
       THEN /\ Close
            /\ fxEvents' = Append(fxEvents, "close")
       ELSE /\ UNCHANGED harness
            /\ UNCHANGED fxEvents
    /\ UNCHANGED <<fxKind, fxFailed, fxLaunch, fxWindow>>
    /\ UNCHANGED notFx

\* screenshot_on_failure after its yield: whether it looks for a controller
screenshot_on_failure(kind, failed) ==
    failed /\ kind = "vscode"

\* request.getfixturevalue('vscode') is asked for a fixture that is already
\* torn down: pytest either hands out the controller or raises
FxHook ==
    /\ fxPc = "hook"
    /\ fxPc' = "done"
    /\ \/ /\ screenshot_on_failure(fxKind, fxFailed)
          /\ TakeScreenshot
          /\ fxEvents' = Append(fxEvents, "screenshot")
       \/ /\ screenshot_on_failure(fxKind, fxFailed)
          /\ UNCHANGED harness
          /\ fxEvents' = Append(fxEvents, "getfixturevalue raised")
       \/ /\ ~screenshot_on_failure(fxKind, fxFailed)
          /\ UNCHANGED harness
          /\ UNCHANGED fxEvents
    /\ UNCHANGED <<fxKind, fxFailed, fxLaunch, fxWindow>>
    /\ UNCHANGED notFx

\* the environment moves while the fixture sets up and the test body runs
FxEnv ==
    /\ fxPc \in {"start", "construct", "launch", "yield", "body"}
    /\ fxPc = "body" => Returned
    /\ \/ ProcessExits
       \/ OtherStarts
       \/ OtherStops
       \/ BinaryChanges
    /\ UNCHANGED fx
    /\ UNCHANGED notFx

FixtureNext ==
    \/ FxPrepare
    \/ FxConstruct
    \/ FxLaunch
    \/ FxBodyStarts
    \/ FxBodyReady /\ WaitForExtension /\ FxBodyOp("wait_for_extension")
    \/ FxBodyReady /\ SendKeys /\ FxBodyOp("send_keys")
    \/ FxBodyReady /\ OpenCommandPalette /\ FxBodyOp("open_command_palette")
    \/ FxBodyReady /\ RunCommand /\ FxBodyOp("run_command")
    \/ FxBodyReady /\ FindText /\ FxBodyOp("find_text")
    \/ FxBodyReady /\ TakeScreenshot /\ FxBodyOp("take_screenshot")
    \/ FxReturn
    \/ FxBodyEnds
    \/ FxClose
    \/ FxHook
    \/ FxEnv

FixtureSpec == FixtureInit /\ [][FixtureNext]_vars

----------------------------------------------------------------------------
(* scripts/test-local.py: LocalTester.run(), one step per method it calls. *)
(* The results of the external commands and the state of the file system   *)
(* are chosen freely at each step.                                         *)

LocalInit ==
    /\ HarnessInit
    /\ FxOff
    /\ ltPc = "check_environment"
    /\ ltArgs \in ArgSets
    /\ ltLog = <<>>
    /\ ltVsix = "None"
    /\ ltRet = "None"
    /\ ltRaised = NoExc
    /\ KsOff
    /\ EsOff
    /\ CvOff

\* run() returns False
LtReturnFalse ==
    /\ ltPc' = "done"
    /\ ltRet' = "False"

\* all(checks) over node, npm, node_modules and tsc
check_environment(node, npm, modules, tsc) ==
    node /\ npm /\ modules /\ tsc

LtCheckEnvironment ==
    /\ ltPc = "check_environment"
    /\ \E ok \in {check_environment(n, m, d, t) : n, m, d, t \in BOOLEAN} :
          /\ ltLog' = Append(ltLog, <<"check_environment", Bit(ok)>>)
          /\ IF ok THEN ltPc' = "clean_build" /\ UNCHANGED ltRet
                   ELSE LtReturnFalse
    /\ UNCHANGED <<ltArgs, ltVsix, ltRaised>>
    /\ UNCHANGED notLt

\* clean_build() returns True; shutil.rmtree and unlink are not guarded
LtCleanBuild ==
    /\ ltPc = "clean_build"
    /\ \E removeOk \in BOOLEAN :
          IF ltArgs.skip_clean \/ removeOk
          THEN /\ ltLog' = Append(ltLog, <<"clean_build", 1>>)
               /\ ltPc' = "compile_typescript"
               /\ UNCHANGED ltRaised
          ELSE /\ ltLog' = Append(ltLog, <<"clean_build", 0>>)
               /\ ltPc' = "done"
               /\ ltRaised' = "OSError"
    /\ UNCHANGED <<ltArgs, ltVsix, ltRet>>
    /\ UNCHANGED notLt

LtCompileTypescript ==
    /\ ltPc = "compile_typescript"
    /\ \E ok \in BOOLEAN :
          /\ ltLog' = Append(ltLog, <<"compile_typescript", Bit(ok)>>)
          /\ IF ok THEN ltPc' = "run_tests" /\ UNCHANGED ltRet
                   ELSE LtReturnFalse
    /\ UNCHANGED <<ltArgs, ltVsix, ltRaised>>
    /\ UNCHANGED notLt

\* the result of run_tests(): unit tests, then integration tests and lint
\* unless --quick; --fail-fast only stops the loop earlier
run_tests(args, unitOk, integrationOk, lintOk) ==
    IF args.skip_tests THEN TRUE
    ELSE IF args.quick THEN unitOk
    ELSE unitOk /\ integrationOk /\ lintOk

\* variant: a test failure never stops run()
RunGoesOnIgnoringTests(testsOk, force) == TRUE

\* "if not self.run_tests(): ... if not self.args.force: return False"
RunGoesOn(testsOk, force) == testsOk \/ force

LtRunTests ==
    /\ ltPc = "run_tests"
    /\ \E ok \in {run_tests(ltArgs, u, i, l) : u, i, l \in BOOLEAN} :
          /\ ltLog' = Append(ltLog, <<"run_tests", Bit(ok)>>)
          /\ IF RunGoesOn(ok, ltArgs.force)
             THEN ltPc' = "package_extension" /\ UNCHANGED ltRet
             ELSE LtReturnFalse
    /\ UNCHANGED <<ltArgs, ltVsix, ltRaised>>
    /\ UNCHANGED notLt

\* package_extension(): vsce or npx vsce, then the *.vsix files are listed
package_extension(vsceFound, commandOk, vsixFound) ==
    IF commandOk /\ vsixFound THEN "path" ELSE "None"

LtPackageExtension ==
    /\ ltPc = "package_extension"
    /\ \E v \in {package_extension(f, c, x) : f, c, x \in BOOLEAN} :
          /\ ltVsix' = v
          /\ ltLog' = Append(ltLog, <<"package_extension", Bit(v # "None")>>)
          /\ IF v # "None" THEN ltPc' = "show" /\ UNCHANGED ltRet
                           ELSE LtReturnFalse
    /\ UNCHANGED <<ltArgs, ltRaised>>
    /\ UNCHANGED notLt

\* show_installation_instructions(), save_results(), return True
LtFinish ==
    /\ ltPc = "show"
    /\ \E saveOk \in BOOLEAN :
          ltLog' = ltLog \o <<<<"show_installation_instructions", 1>>,
                              <<"save_results", Bit(saveOk)>>>>
    /\ ltPc' = "done"
    /\ ltRet' = "True"
    /\ UNCHANGED <<ltArgs, ltVsix, ltRaised>>
    /\ UNCHANGED notLt

LocalNext ==
    \/ LtCheckEnvironment
    \/ LtCleanBuild
    \/ LtCompileTypescript
    \/ LtRunTests
    \/ LtPackageExtension
    \/ LtFinish

LocalSpec == LocalInit /\ [][LocalNext]_vars

----------------------------------------------------------------------------
(* Key strings handed to send_keys(): what reaches the window or the       *)
(* global keystroke facility.  Strings are sequences of characters, and    *)
(* the string operations of the fallback are computed on them.             *)

MaxKeyLen == 3      \* characters of a key string

KeyChars == {"^", "+", "p", "e"}

KeyInputs == UNION {[1..n -> KeyChars] : n \in 1..MaxKeyLen}

\* str.replace(old, new) for a one-character old
RECURSIVE Replace(_, _, _)
Replace(chars, old, new) ==
    IF chars = <<>> THEN <<>>
    ELSE (IF Head(chars) = old THEN new ELSE <<Head(chars)>>)
         \o Replace(Tail(chars), old, new)

\* str.split(sep) for a one-character sep: cur is the part being read
RECURSIVE SplitFrom(_, _, _)
SplitFrom(chars, sep, cur) ==
    IF chars = <<>> THEN <<cur>>
    ELSE IF Head(chars) = sep
    THEN <<cur>> \o SplitFrom(Tail(chars), sep, <<>>)
    ELSE SplitFrom(Tail(chars), sep, Append(cur, Head(chars)))

Split(chars, sep) == SplitFrom(chars, sep, <<>>)

CtrlPlus == <<"c", "t", "r", "l", "+">>
Ctrl == <<"c", "t", "r", "l">>
Shift == <<"s", "h", "i", "f", "t">>

\* keys.replace('^', 'ctrl+').replace('+', '+').split('+')
HotkeyParts(keys) ==
    Split(Replace(Replace(keys, "^", CtrlPlus), "+", <<"+">>), "+")

\* the facility send_keys() hands the keys to, and the arguments it gets
Delivery(hasWindow, keys) ==
    IF hasWindow
    THEN [via |-> "window.type_keys", sent |-> <<keys>>]
    ELSE IF HasPlus(keys)
    THEN [via |-> "pyautogui.hotkey", sent |-> HotkeyParts(keys)]
    ELSE [via |-> "pyautogui.press", sent |-> <<keys>>]

KeysInit ==
    /\ HarnessInit
    /\ FxOff
    /\ LtOff
    /\ ksOp = "start"
    /\ ksWindow \in BOOLEAN
    /\ ksKeys \in KeyInputs
    /\ ksVia = "none"
    /\ ksSent = <<>>
    /\ EsOff
    /\ CvOff

\* send_keys(ksKeys)
KsSendKeys ==
    /\ ksOp = "start"
    /\ ksOp' = "send_keys"
    /\ ksVia' = Delivery(ksWindow, ksKeys).via
    /\ ksSent' = Delivery(ksWindow, ksKeys).sent
    /\ UNCHANGED <<ksWindow, ksKeys>>
    /\ UNCHANGED notKs

\* open_command_palette(): send_keys("^+p")
KsOpenCommandPalette ==
    /\ ksOp = "start"
    /\ ksOp' = "open_command_palette"
    /\ ksKeys' = CtrlShiftP
    /\ ksVia' = Delivery(ksWindow, CtrlShiftP).via
    /\ ksSent' = Delivery(ksWindow, CtrlShiftP).sent
    /\ UNCHANGED ksWindow
    /\ UNCHANGED notKs

KeysNext ==
    \/ KsSendKeys
    \/ KsOpenCommandPalette

KeysSpec == KeysInit /\ [][KeysNext]_vars

----------------------------------------------------------------------------
(* setup-environment.py: EnvironmentSetup.run(), one step per method it    *)
(* calls.  The results of the checks and of the external commands are      *)
(* chosen freely at each step; standard input either holds a line or is    *)
(* at its end when print_summary() reads from it.                          *)

SetupInit ==
    /\ HarnessInit
    /\ FxOff
    /\ LtOff
    /\ KsOff
    /\ esPc = "validate_dependencies"
    /\ esArgs \in SetupArgSets
    /\ esLog = <<>>
    /\ esRet = "None"
    /\ esRaised = NoExc
    /\ CvOff

\* all_valid: every required dependency that is checked is valid
validate_dependencies(requiredValid, optionalValid) == requiredValid

EsValidateDependencies ==
    /\ esPc = "validate_dependencies"
    /\ \E ok \in {validate_dependencies(r, o) : r, o \in BOOLEAN} :
          /\ esLog' = Append(esLog, <<"validate_dependencies", Bit(ok)>>)
          /\ esPc' = IF ok THEN "check_npm_packages" ELSE "save_report"
    /\ UNCHANGED <<esArgs, esRet, esRaised>>
    /\ UNCHANGED notEs

\* needs_install from the status that check_npm_packages() returned: the
\* local entry is absent or False, or a listed global package is missing
needs_install(localInstalled, globalListed, vsceInstalled) ==
    ~localInstalled \/ (globalListed /\ ~vsceInstalled)

\* check_npm_packages(), and install_npm_packages() when needed: its result
\* only decides whether a warning is printed
EsNpmPackages ==
    /\ esPc = "check_npm_packages"
    /\ \E needs \in {needs_install(l, g, v) : l, g, v \in BOOLEAN},
          installOk \in BOOLEAN :
          esLog' = esLog \o <<<<"check_npm_packages", 1>>>>
                         \o (IF needs
                             THEN <<<<"install_npm_packages", Bit(installOk)>>>>
                             ELSE <<>>)
    /\ esPc' = "update_package_json"
    /\ UNCHANGED <<esArgs, esRet, esRaised>>
    /\ UNCHANGED notEs

\* "if not self.args.ci: self.update_package_json()"
EsUpdatePackageJson ==
    /\ esPc = "update_package_json"
    /\ \E ok \in BOOLEAN :
          esLog' = IF esArgs.ci THEN esLog
                   ELSE Append(esLog, <<"update_package_json", Bit(ok)>>)
    /\ esPc' = "create_development_icon"
    /\ UNCHANGED <<esArgs, esRet, esRaised>>
    /\ UNCHANGED notEs

EsCreateDevelopmentIcon ==
    /\ esPc = "create_development_icon"
    /\ \E ok \in BOOLEAN :
          esLog' = Append(esLog, <<"create_development_icon", Bit(ok)>>)
    /\ esPc' = "validate_compilation"
    /\ UNCHANGED <<esArgs, esRet, esRaised>>
    /\ UNCHANGED notEs

EsValidateCompilation ==
    /\ esPc = "validate_compilation"
    /\ \E ok \in BOOLEAN :
          esLog' = Append(esLog, <<"validate_compilation", Bit(ok)>>)
    /\ esPc' = "save_report"
    /\ UNCHANGED <<esArgs, esRet, esRaised>>
    /\ UNCHANGED notEs

\* save_report() catches what writing the file raises
EsSaveReport ==
    /\ esPc = "save_report"
    /\ \E ok \in BOOLEAN :
          esLog' = Append(esLog, <<"save_report", Bit(ok)>>)
    /\ esPc' = "print_summary"
    /\ UNCHANGED <<esArgs, esRet, esRaised>>
    /\ UNCHANGED notEs

\* success = deps_valid and compile_success
SetupSuccess(log) ==
    /\ \E i \in 1..Len(log) : log[i] = <<"validate_dependencies", 1>>
    /\ \E i \in 1..Len(log) : log[i] = <<"validate_compilation", 1>>

\* print_summary(success) and the return of run(); without --ci
\* print_summary ends with input(), which raises EOFError at end of input
EsPrintSummary ==
    /\ esPc = "print_summary"
    /\ esPc' = "done"
    /\ \E stdinHasLine \in BOOLEAN :
          IF esArgs.ci \/ stdinHasLine
          THEN /\ esLog' = Append(esLog, <<"print_summary", 1>>)
               /\ esRet' = IF SetupSuccess(esLog) THEN "True" ELSE "False"
               /\ UNCHANGED esRaised
          ELSE /\ esLog' = Append(esLog, <<"print_summary", 0>>)
               /\ esRaised' = "EOFError"
               /\ UNCHANGED esRet
    /\ UNCHANGED esArgs
    /\ UNCHANGED notEs

SetupNext ==
    \/ EsValidateDependencies
    \/ EsNpmPackages
    \/ EsUpdatePackageJson
    \/ EsCreateDevelopmentIcon
    \/ EsValidateCompilation
    \/ EsSaveReport
    \/ EsPrintSummary

SetupSpec == SetupInit /\ [][SetupNext]_vars

----------------------------------------------------------------------------
(* setup-environment.py: EnvironmentSetup._compare_versions.  A version    *)
(* string is the sequence of its characters; the versions compared are     *)
(* the strings written for sequences of numeric components.                *)

MaxParts == 2       \* components of a version

Components == {0, 1, 2, 10}

VersionParts == UNION {[1..n -> Components] : n \in 1..MaxParts}

DigitChars == <<"0", "1", "2", "3", "4", "5", "6", "7", "8", "9">>

\* the decimal digits of a number below 100
FormatInt(n) ==
    IF n < 10 THEN <<DigitChars[n + 1]>>
    ELSE <<DigitChars[(n \div 10) + 1], DigitChars[(n % 10) + 1]>>

\* the dotted version string of a sequence of components
RECURSIVE FormatVersion(_)
FormatVersion(parts) ==
    IF Len(parts) = 1 THEN FormatInt(parts[1])
    ELSE FormatInt(parts[1]) \o <<".">> \o FormatVersion(Tail(parts))

DigitVal(c) == (CHOOSE i \in 1..Len(DigitChars) : DigitChars[i] = c) - 1

\* int(s) for a string of decimal digits
RECURSIVE ParseInt(_)
ParseInt(chars) ==
    IF Len(chars) = 1 THEN DigitVal(chars[1])
    ELSE ParseInt(SubSeq(chars, 1, Len(chars) - 1)) * 10
         + DigitVal(chars[Len(chars)])

\* list(map(int, version.split('.')))
IntParts(version) ==
    LET p == Split(version, ".") IN [i \in 1..Len(p) |-> ParseInt(p[i])]

\* variant: the shorter list is filled up with ones
PadOnes(parts, n) == parts \o [i \in 1..(n - Len(parts)) |-> 1]

\* parts.extend([0] * (max_len - len(parts)))
Pad(parts, n) == parts \o [i \in 1..(n - Len(parts)) |-> 0]

\* the loop "for i in range(max_len)" from index i on
RECURSIVE CompareFrom(_, _, _)
CompareFrom(p1, p2, i) ==
    IF i > Len(p1) THEN 0
    ELSE IF p1[i] < p2[i] THEN 0 - 1
    ELSE IF p1[i] > p2[i] THEN 1
    ELSE CompareFrom(p1, p2, i + 1)

compare_versions(version1, version2) ==
    LET v1 == IntParts(version1)
        v2 == IntParts(version2)
        max_len == IF Len(v1) > Len(v2) THEN Len(v1) ELSE Len(v2)
    IN CompareFrom(Pad(v1, max_len), Pad(v2, max_len), 1)

CompareInit ==
    /\ HarnessInit
    /\ FxOff
    /\ LtOff
    /\ KsOff
    /\ EsOff
    /\ cvPc = "start"
    /\ cvV1 \in VersionParts
    /\ cvV2 \in VersionParts
    /\ cvAB = 0
    /\ cvBA = 0
    /\ cvPad = 0

\* the comparisons of the two version strings, both ways, and of the first
\* with itself followed by ".0"
CvCompare ==
    /\ cvPc = "start"
    /\ cvPc' = "done"
    /\ cvAB' = compare_versions(FormatVersion(cvV1), FormatVersion(cvV2))
    /\ cvBA' = compare_versions(FormatVersion(cvV2), FormatVersion(cvV1))
    /\ cvPad' = compare_versions(FormatVersion(cvV1),
                                 FormatVersion(cvV1) \o <<".", "0">>)
    /\ UNCHANGED <<cvV1, cvV2>>
    /\ UNCHANGED notCv

CompareNext == CvCompare

CompareSpec == CompareInit /\ [][CompareNext]_vars

----------------------------------------------------------------------------
(* Properties *)

\* the last step was a launch() that spawned a process
LaunchSpawned ==
    /\ lastOp = "launch"
    /\ calls # <<>>
    /\ calls[1][1] = "Popen"
    /\ calls[1][2] # 0

\* ... and the poll after the sleep saw the process exited / running
LaunchPolledExited == LaunchSpawned /\ calls[3] = <<"poll", 0>>
LaunchPolledAlive == LaunchSpawned /\ calls[3] = <<"poll", 1>>

Printed(tag, v) == \E i \in 1..Len(output) : output[i] = <<tag, v>>

(* C1: close() never raises, whatever the state of the controller and     *)
(* whichever of terminate, wait, kill, window.close and taskkill fail.     *)
C1_CloseNeverRaises ==
    lastOp = "close" => raised = NoExc

\* a close() in which both the graceful step and taskkill raised
C1_Witness ==
    /\ lastOp = "close"
    /\ Count(calls, "terminate", 0) + Count(calls, "kill", 0)
         + Count(calls, "window.close", 0) > 0
    /\ Count(calls, "taskkill", 0) = 1
    /\ raised = NoExc

(* C2: when close() has returned, no process with the application's        *)
(* executable name is running.                                             *)
C2_NoInstanceAfterClose ==
    lastOp = "close" => NoInstanceRunning

(* C3: every close() issues the kill-by-name step exactly once, as its     *)
(* last call, after the graceful step, whether that step succeeded,        *)
(* raised or was skipped.                                                  *)
C3_TaskkillOnceLast ==
    lastOp = "close" =>
        /\ CountName(calls, "taskkill") = 1
        /\ calls[Len(calls)][1] = "taskkill"

\* a close() whose graceful step raised, followed by taskkill
C3_Witness ==
    /\ lastOp = "close"
    /\ Len(calls) > 1
    /\ calls[Len(calls) - 1] \in {<<"terminate", 0>>, <<"kill", 0>>,
                                  <<"wait", 0>>, <<"window.close", 0>>}
    /\ calls[Len(calls)][1] = "taskkill"

(* C4: a launch() whose process had exited at the poll after the sleep     *)
(* returns False, prints the exit code of that process, and does not       *)
(* attempt to attach a window.                                             *)
C4_EarlyExitFalse ==
    LaunchPolledExited =>
        /\ ret = "False"
        /\ Printed("VS Code exited early with code", exitcode[process])
        /\ CountName(calls, "connect_to_window") = 0

\* an early exit with a non-zero exit code
C4_Witness ==
    /\ LaunchPolledExited
    /\ exitcode[process] = 1
    /\ ret = "False"

(* C5 as stated: launch() returns True whenever the process is running at  *)
(* the poll after the sleep.                                               *)
C5_Original ==
    LaunchPolledAlive => ret = "True"

(* C5 amended: launch() returns True whenever the process is running at    *)
(* the poll after the sleep and, if the attachment fails, still running    *)
(* at the poll after the attachment; a failed attachment alone never       *)
(* makes the result False.                                                 *)
C5_Amended ==
    (/\ LaunchPolledAlive
     /\ \/ calls[4] = <<"connect_to_window", 1>>
        \/ calls[Len(calls)] = <<"poll", 1>>)
    => ret = "True"

\* attachment failed, process still running: True
C5_Witness ==
    /\ LaunchPolledAlive
    /\ calls[4] = <<"connect_to_window", 0>>
    /\ calls[5] = <<"poll", 1>>
    /\ window = None
    /\ ret = "True"

(* C6: a launch() that spawned a process returns True iff that process is  *)
(* running at the end of the call.                                         *)
C6_TrueIffAlive ==
    LaunchSpawned => (ret = "True" <=> alive[process])

(* C7 as stated: the process handle is non-null iff a launch() call has    *)
(* returned without raising.                                               *)
C7_Original ==
    (process # None) <=> launchReturned

(* C7 amended: the process handle is non-null iff a launch() call has      *)
(* spawned a process; a launch() that returned True leaves it non-null,    *)
(* and one that returned False because the spawn failed leaves the handle  *)
(* as it was.                                                              *)
C7_Amended ==
    /\ (process # None) <=> (nspawn > 0)
    /\ process # None => launchReturned
    /\ (lastOp = "launch" /\ ret = "True") => process # None

\* a launch() that returned False and left the handle null
C7_Witness ==
    /\ lastOp = "launch"
    /\ ret = "False"
    /\ raised = NoExc
    /\ launchReturned
    /\ process = None

(* C8 as stated: launch() raises "not found" when the binary does not      *)
(* exist.                                                                  *)
C8_Original ==
    (lastOp = "launch" /\ ~binaryExists) => raised = "FileNotFoundError"

(* C8 amended: when no binary is found, the constructor raises "not found" *)
(* and no controller exists, so nothing is spawned; a launch() on a        *)
(* controller whose binary has disappeared does not raise "not found": it  *)
(* returns False, and Popen has produced no process.                       *)
C8_Amended ==
    /\ (lastOp = "init" /\ ~binaryExists) =>
          /\ raised = "FileNotFoundError"
          /\ ~constructed
          /\ nspawn = 0
    /\ (lastOp = "launch" /\ ~binaryExists) =>
          /\ raised # "FileNotFoundError"
          /\ raised = NoExc => (ret = "False" /\ calls = <<<<"Popen", 0>>>>)

\* the constructor raised "not found"
C8_Witness ==
    /\ lastOp = "init"
    /\ ~binaryExists
    /\ raised = "FileNotFoundError"
    /\ ~constructed

(* C9: wait_for_extension() returns False only if a launched process       *)
(* exists and a poll of the call saw it exited.                            *)
C9_FalseOnlyIfExited ==
    (lastOp = "wait" /\ ret = "False") =>
        /\ process # None
        /\ Count(calls, "poll", 0) > 0

(* C10: wait_for_extension(timeout=10) on a launched process that stays    *)
(* alive returns True between 10 and 12 seconds after the call, after the  *)
(* 5s sleep and at least one 2s sleep.                                     *)
C10_Timeout10 ==
    (/\ lastOp = "wait"
     /\ arg = 10
     /\ process # None
     /\ alive[process])
    => /\ ret = "True"
       /\ Elapsed(calls) \in 10..12
       /\ Head(calls) = <<"sleep", StabilizeSleep>>
       /\ Count(calls, "sleep", PollSleep) >= 1

\* such a call, on a controller whose launch spawned the process
C10_Witness ==
    /\ lastOp = "wait"
    /\ arg = 10
    /\ process # None
    /\ alive[process]
    /\ ret = "True"
    /\ Elapsed(calls) = 11


(* C11: once close() has returned, no launch() brings the controller back  *)
(* to a state with a live process that it spawned.                         *)
C11_NoReturnFromClosed ==
    closed => ~(LaunchSpawned /\ alive[process])

(* C12: a non-null window handle refers to a window of a process that      *)
(* this controller launched.                                               *)
C12_WindowIsOwn ==
    window # None => window \in 1..nspawn

(* C13: at most one process spawned by the controller is running.          *)
C13_OneLiveProcess ==
    Cardinality(RunningPids) <= 1

(* C14: find_text() returns False and does not raise when no window is     *)
(* attached, whatever the state of the process.                            *)
C14_FindTextNoWindow ==
    (lastOp = "find_text" /\ window = None) =>
        /\ ret = "False"
        /\ raised = NoExc

\* find_text() on a launched, running, unattached controller
C14_Witness ==
    /\ lastOp = "find_text"
    /\ window = None
    /\ process # None
    /\ alive[process]
    /\ ret = "False"

\* the last step was a take_screenshot() that got to the capture
ScreenshotCaptured(ok) ==
    /\ lastOp = "take_screenshot"
    /\ \/ Count(calls, "window.capture_as_image", Bit(ok)) = 1
       \/ Count(calls, "pyautogui.screenshot", Bit(ok)) = 1

(* C15 as stated: take_screenshot() returns a non-empty path whenever a    *)
(* window is attached and the directory is writable, and the empty string  *)
(* without raising whenever the capture fails.                             *)
C15_Original ==
    /\ (/\ lastOp = "take_screenshot"
        /\ window # None
        /\ Count(calls, "makedirs", 1) = 1) => ret = "path"
    /\ ScreenshotCaptured(FALSE) => (ret = "" /\ raised = NoExc)

(* C15 amended: take_screenshot() returns a non-empty path whenever a      *)
(* window is attached, the directory is writable and the capture of the    *)
(* window succeeds, and the empty string without raising whenever the      *)
(* capture fails.                                                          *)
C15_Amended ==
    /\ (/\ lastOp = "take_screenshot"
        /\ window # None
        /\ Count(calls, "makedirs", 1) = 1
        /\ Count(calls, "window.capture_as_image", 1) = 1) => ret = "path"
    /\ ScreenshotCaptured(FALSE) => (ret = "" /\ raised = NoExc)

\* the capture of an attached window failed: empty string, nothing raised
C15_Witness ==
    /\ lastOp = "take_screenshot"
    /\ window # None
    /\ Count(calls, "window.capture_as_image", 0) = 1
    /\ ret = ""
    /\ raised = NoExc

(* C16: open_command_palette, run_command, find_text and take_screenshot   *)
(* never propagate an exception: on every failure they return False or     *)
(* the empty string.                                                       *)
C16_NoPropagation ==
    lastOp \in {"open_command_palette", "run_command", "find_text",
                "take_screenshot"}
    => /\ raised = NoExc
       /\ ret \in {"True", "False", "path", ""}


\* positions of an event in the events of the test run
EventAt(name) == {i \in 1..Len(fxEvents) : fxEvents[i] = name}

(* C17: in a test that uses a harness fixture the events are construct,    *)
(* launch(), test body, close(), in this order; the body runs only if      *)
(* launch() returned True; close() is called exactly once after every      *)
(* body that ran, whether the test passed or failed.                       *)
C17_FixtureOrder ==
    /\ Len(fxEvents) >= 1 => fxEvents[1] = "construct"
    /\ Len(fxEvents) >= 2 => fxEvents[2] = "launch"
    /\ Len(fxEvents) >= 3 => fxEvents[3] = "body"
    /\ EventAt("body") # {} => fxLaunch = "True"
    /\ Cardinality(EventAt("close")) <= 1
    /\ \A i \in EventAt("close") : i > 3
    /\ (fxPc \in {"hook", "done"}) => Cardinality(EventAt("close")) = 1

\* a failed test, after its teardown: the body ran and close() was called
C17_Witness ==
    /\ fxPc = "done"
    /\ fxFailed
    /\ EventAt("body") = {3}
    /\ Cardinality(EventAt("close")) = 1
    /\ closed

(* C18: when a test that uses a harness fixture has failed in its call     *)
(* phase, the failure hook has taken a screenshot through the controller.  *)
C18_ScreenshotOnFailure ==
    (fxPc = "done" /\ fxFailed) => EventAt("screenshot") # {}

\* in a vscode test, after wait_for_extension() and then one of
\* run_command(), send_keys(), take_screenshot()
AfterWaitAndOp ==
    /\ fxKind = "vscode"
    /\ fxPc \in {"body", "teardown"}
    /\ Len(BodyOps) = 2
    /\ BodyOps[1] = "wait_for_extension"
    /\ BodyOps[2] \in {"run_command", "send_keys", "take_screenshot"}

LoggedAt(name, ok) ==
    {i \in 1..Len(ltLog) : ltLog[i] = <<name, Bit(ok)>>}

\* positions in the log of run() where a method was called
CalledAt(name) == LoggedAt(name, TRUE) \cup LoggedAt(name, FALSE)

(* C20: run() calls package_extension only after check_environment and     *)
(* compile_typescript returned True and, unless --force is set, after      *)
(* run_tests returned True; with --force a run whose tests failed still    *)
(* calls package_extension; run() returns True exactly when                *)
(* package_extension returned a VSIX path.                                 *)
C20_PackagingGate ==
    /\ \A p \in CalledAt("package_extension") :
          /\ \E i \in LoggedAt("check_environment", TRUE) : i < p
          /\ \E i \in LoggedAt("compile_typescript", TRUE) : i < p
          /\ \E i \in CalledAt("run_tests") : i < p
          /\ ~ltArgs.force => \E i \in LoggedAt("run_tests", TRUE) : i < p
    /\ (ltArgs.force /\ LoggedAt("run_tests", FALSE) # {}
          /\ ltPc \notin {"run_tests", "package_extension"})
       => CalledAt("package_extension") # {}
    /\ ltPc = "done" => (ltRet = "True" <=> ltVsix = "path")
    /\ ltPc # "done" => ltRet = "None"

\* a forced run whose tests failed and that returned True
C20_Witness ==
    /\ ltPc = "done"
    /\ ltArgs.force
    /\ LoggedAt("run_tests", FALSE) # {}
    /\ ltVsix = "path"
    /\ ltRet = "True"


\* positions of the calls of that name in the log of the last operation
CallsAt(name) == {i \in 1..Len(calls) : calls[i][1] = name}

(* C21: in close() on a controller with a process handle, kill() is sent   *)
(* only after terminate() was sent and the wait that follows it timed out; *)
(* when that wait saw the process exit, kill() is not sent.                *)
C21_KillAfterTimeout ==
    (lastOp = "close" /\ process # None) =>
        /\ \A k \in CallsAt("kill") :
              /\ k = 3
              /\ calls[1] = <<"terminate", 1>>
              /\ calls[2] = <<"wait", 0>>
        /\ (Len(calls) >= 2 /\ calls[2] = <<"wait", 1>>)
              => CallsAt("kill") = {}

\* a close() that escalated to kill()
C21_Witness ==
    /\ lastOp = "close"
    /\ process # None
    /\ CallsAt("kill") = {3}
    /\ calls[2] = <<"wait", 0>>


\* positions in the log of the last operation where a key string was handed
\* to the window or to the global keystroke facility
Deliveries ==
    CallsAt("window.type_keys") \cup CallsAt("pyautogui.hotkey")
        \cup CallsAt("pyautogui.press")

\* the first key string of the last operation was delivered
FirstDeliveryOk ==
    \E d \in Deliveries :
        /\ calls[d][2] = 1
        /\ \A e \in Deliveries : d <= e

(* C22: run_command() opens the command palette, then types the text, then *)
(* sends Enter; when opening the palette fails it returns False and        *)
(* neither types nor sends Enter; it returns True exactly when no step     *)
(* raised.                                                                 *)
C22_RunCommandOrder ==
    lastOp = "run_command" =>
        /\ raised = NoExc
        /\ ret \in {"True", "False"}
        /\ Cardinality(CallsAt("pyautogui.typewrite")) <= 1
        /\ Cardinality(Deliveries) <= 2
        /\ \A t \in CallsAt("pyautogui.typewrite") :
              /\ FirstDeliveryOk
              /\ \E d \in Deliveries : d < t
              /\ Cardinality({d \in Deliveries : d < t}) = 1
        /\ Cardinality(Deliveries) = 2 =>
              \E t \in CallsAt("pyautogui.typewrite") : calls[t][2] = 1
        /\ ~FirstDeliveryOk =>
              /\ ret = "False"
              /\ CallsAt("pyautogui.typewrite") = {}
              /\ Cardinality(Deliveries) <= 1
        /\ ret = "True" <=> \A i \in 1..Len(calls) : calls[i][2] # 0
        /\ ret = "True" =>
              /\ Cardinality(Deliveries) = 2
              /\ CallsAt("pyautogui.typewrite") # {}

\* a run_command() on a controller without a window that went through
C22_Witness ==
    /\ lastOp = "run_command"
    /\ window = None
    /\ ret = "True"
    /\ CallsAt("pyautogui.hotkey") = {1}
    /\ CallsAt("pyautogui.typewrite") = {3}
    /\ CallsAt("pyautogui.press") = {5}


\* the step is a call of connect_to_window() by a test
ConnectCalled == lastOp = "none" /\ lastOp' = "connect"

C24_SameChord ==
    ksOp = "open_command_palette" =>
        IF ksWindow
        THEN ksVia = "window.type_keys" /\ ksSent = <<CtrlShiftP>>
        ELSE ksVia = "pyautogui.hotkey" /\ ksSent = <<Ctrl, Shift, <<"p">>>>


\* positions in the log of EnvironmentSetup.run() where a method was called
SetupCalledAt(name) == {i \in 1..Len(esLog) : esLog[i][1] = name}

\* positions in that log where a method returned a result
SetupLoggedAt(name, ok) == {i \in 1..Len(esLog) : esLog[i] = <<name, Bit(ok)>>}

(* C25: EnvironmentSetup.run(): when validate_dependencies returned False  *)
(* no npm install, package.json update, icon creation or compilation runs  *)
(* and run() returns False; otherwise run() returns True exactly when      *)
(* validate_compilation succeeded; the report is saved before the summary  *)
(* on both paths.                                                          *)
C25_SetupRun ==
    /\ SetupLoggedAt("validate_dependencies", FALSE) # {} =>
          /\ SetupCalledAt("install_npm_packages") = {}
          /\ SetupCalledAt("update_package_json") = {}
          /\ SetupCalledAt("create_development_icon") = {}
          /\ SetupCalledAt("validate_compilation") = {}
          /\ esPc = "done" => esRet = "False"
    /\ (esPc = "done" /\ SetupLoggedAt("validate_dependencies", TRUE) # {}) =>
          /\ esRet \in {"True", "False"}
          /\ esRet = "True" <=> SetupLoggedAt("validate_compilation", TRUE) # {}
    /\ \A p \in SetupCalledAt("print_summary") :
          \E r \in SetupCalledAt("save_report") : r < p
    /\ esPc = "done" => SetupCalledAt("print_summary") # {}


\* component i of a version, zero beyond its last component
ComponentAt(parts, i) == IF i <= Len(parts) THEN parts[i] ELSE 0

\* the indexes at which two versions differ
Differing(p1, p2) ==
    {i \in 1..MaxParts : ComponentAt(p1, i) # ComponentAt(p2, i)}

\* the order of two versions by their first differing component
NumericOrder(p1, p2) ==
    IF Differing(p1, p2) = {} THEN 0
    ELSE LET k == CHOOSE i \in Differing(p1, p2) :
                      \A j \in Differing(p1, p2) : i <= j
         IN IF ComponentAt(p1, k) < ComponentAt(p2, k) THEN 0 - 1 ELSE 1

(* C26: _compare_versions(a, b) is -1, 0 or 1 by the component-wise        *)
(* numeric order of the versions, the shorter one padded with zeros;       *)
(* compare(a, b) = -compare(b, a), compare(a, a) = 0, and a version        *)
(* compares equal to itself followed by ".0".                              *)
C26_CompareVersions ==
    cvPc = "done" =>
        /\ cvAB \in {0 - 1, 0, 1}
        /\ cvAB = NumericOrder(cvV1, cvV2)
        /\ cvAB = 0 - cvBA
        /\ cvV1 = cvV2 => cvAB = 0
        /\ cvPad = 0

\* 2.0 against 10: numerically smaller, and of different lengths
C26_Witness ==
    /\ cvPc = "done"
    /\ cvV1 = <<2, 0>>
    /\ cvV2 = <<10>>
    /\ cvAB = 0 - 1
    /\ cvBA = 1
    /\ cvPad = 0


\* the step is a call of close()
CloseCalled == lastOp = "none" /\ lastOp' = "close"

\* the last operation went to the attached window
AddressedWindow ==
    \/ lastOp = "send_keys" /\ calls[1][1] = "window.set_focus"
    \/ lastOp = "find_text" /\ calls[1][1] = "window.descendants"
    \/ /\ lastOp = "take_screenshot"
       /\ raised = NoExc => CallsAt("window.capture_as_image") # {}

(* C27: close() changes none of the fields of the controller: process,     *)
(* window and app are after it what they were before it, and send_keys,    *)
(* find_text and take_screenshot on a controller whose window handle is    *)
(* non-null go to that window, after close() as before it.                 *)
C27_CloseKeepsFields ==
    /\ [][CloseCalled =>
             /\ process' = process
             /\ window' = window
             /\ app' = app]_vars
    /\ []((lastOp \in {"send_keys", "find_text", "take_screenshot"}
             /\ window # None) => AddressedWindow)

\* keys sent to the window of a controller that was launched once, attached
\* and then closed
C27_Witness ==
    /\ closed
    /\ nspawn = 1
    /\ window = 1
    /\ ~alive[1]
    /\ lastOp = "send_keys"
    /\ calls = <<<<"window.set_focus", 1>>, <<"window.type_keys", 1>>>>


(* C28: when wait_for_extension() returns True the controller has a        *)
(* process handle and a poll of that call saw the process running; on a    *)
(* controller without a process handle it returns False for every timeout. *)
C28_TrueOnlyIfPolledAlive ==
    lastOp = "wait" =>
        /\ ret = "True" =>
              /\ process # None
              /\ Count(calls, "poll", 1) > 0
        /\ process = None => ret = "False"


\* polls made inside the loop of wait_for_extension(): all polls but the
\* one made before the loop on a controller with a process handle
LoopPolls == CountName(calls, "poll") - Bit(process # None)

(* C29: wait_for_extension() returns for every timeout and every behaviour *)
(* of the process after at most four iterations of its loop: with sleeps   *)
(* of exactly 5s and 2s, no later than 11 seconds after the call, also for *)
(* timeouts larger than 11.                                                *)
C29_WaitBounded ==
    lastOp = "wait" =>
        /\ ret \in {"True", "False"}
        /\ Elapsed(calls) <= 11
        /\ Count(calls, "sleep", StabilizeSleep) = 1
        /\ Count(calls, "sleep", PollSleep) <= 3
        /\ LoopPolls <= 4

\* the longest wait: timeout 30 on a process that stays alive
C29_Witness ==
    /\ lastOp = "wait"
    /\ arg = 30
    /\ ret = "True"
    /\ Elapsed(calls) = 11
    /\ LoopPolls = 4


(* C30: in a failing test that uses the vscode fixture the failure         *)
(* screenshot is taken before close() runs, while the application          *)
(* launched for the test has not been terminated.                          *)
C30_ScreenshotBeforeClose ==
    (fxKind = "vscode" /\ fxFailed /\ fxPc = "done") =>
        \E sc \in EventAt("screenshot") :
            \A c \in EventAt("close") : sc < c


====
